---- MODULE Spec2Model ----
(***************************************************************************)
(* A model of the styled-components study repository: the two versions of  *)
(* App (the theme switcher and the earlier single-theme one), the theme    *)
(* objects, and the styled components Button, IconButton, Input, Grid and  *)
(* GradientBackground.  A styled component is modelled by the list of CSS  *)
(* declarations its template produces for given props and theme; the      *)
(* style of an element follows from that list by the cascade (the last     *)
(* matching declaration of a property wins).                               *)
(***************************************************************************)
EXTENDS Integers, Sequences, FiniteSets, TLC

VARIABLES
    count,          \* useState(0): never set
    isDark,         \* useState(false): the theme toggle flag
    currentTheme,   \* const currentTheme of the last render of App
    baseTheme,      \* the theme objects of theme/theme.js (JS objects are mutable)
    lightTheme,
    darkTheme,
    theme,          \* the single theme of the earlier theme.js
    clicks,         \* number of Toggle clicks so far (history)
    width,          \* viewport width in CSS px
    elem            \* the styled element being rendered: [comp, props, provider]

vars == <<count, isDark, currentTheme, baseTheme, lightTheme, darkTheme, theme,
          clicks, width, elem>>

themeVars == <<baseTheme, lightTheme, darkTheme, theme>>

------------------------------------------------------------------------------
(* Bounds *)

MaxClicks == 4
MaxDelta == 1

------------------------------------------------------------------------------
(* JavaScript values: a string or undefined *)

Undefined == [t |-> "undefined"]

Str(s) == [t |-> "string", v |-> s]

\* obj[key] for a plain object: undefined when the key is missing (a key that
\* is itself undefined names the property "undefined", which no theme has).
Member(obj, key) ==
    IF key.t = "string" /\ key.v \in DOMAIN obj THEN Str(obj[key.v]) ELSE Undefined

\* a || b for strings: undefined and '' are falsy
Or(a, b) == IF a = Undefined \/ a = Str("") THEN b ELSE a

\* {...base, ...own}
Spread(base, own) ==
    [k \in DOMAIN base \cup DOMAIN own |->
        IF k \in DOMAIN own THEN own[k] ELSE base[k]]

------------------------------------------------------------------------------
(* The theme objects.  Breakpoints are kept as character sequences because *)
(* the media queries parse them.                                           *)

BaseThemeLiteral ==
    [spacing |-> [xs |-> "4px", sm |-> "8px", md |-> "16px", lg |-> "24px", xl |-> "32px"],
     typography |-> [xs |-> "12px", sm |-> "14px", md |-> "16px", lg |-> "18px", xl |-> "24px"],
     breakpoints |-> [mobile |-> <<"4", "8", "0", "p", "x">>,
                      tablet |-> <<"7", "6", "8", "p", "x">>,
                      desktop |-> <<"1", "0", "2", "4", "p", "x">>]]

LightThemeLiteral ==
    Spread(BaseThemeLiteral,
        [colors |-> [primary |-> "#007bff", danger |-> "#dc3545", success |-> "#28a745",
                     background |-> "#ffffff", text |-> "#333333"],
         gradients |-> [main |-> "linear-gradient(135deg, #667eea 0%, #764ba2 50%, #f093fb 100%)"]])

DarkThemeLiteral ==
    Spread(BaseThemeLiteral,
        [colors |-> [primary |-> "#4dabf7", danger |-> "#ff6b6b", success |-> "#51cf66",
                     background |-> "#1a1a1a", text |-> "#ffffff"],
         gradients |-> [main |-> "linear-gradient(135deg, #1e3c72 0%, #2a5298 50%, #000000 100%)"]])

ThemeLiteral ==
    [colors |-> [primary |-> "#007bff", secondary |-> "#6c757d", danger |-> "#dc3545"],
     spacing |-> [xs |-> "4px", sm |-> "8px", md |-> "16px", lg |-> "24px", xl |-> "32px"],
     typography |-> [xs |-> "12px", sm |-> "14px", md |-> "16px", lg |-> "18px", xl |-> "24px"],
     breakpoints |-> [mobile |-> <<"4", "8", "0", "p", "x">>,
                      tablet |-> <<"7", "6", "8", "p", "x">>,
                      desktop |-> <<"1", "0", "2", "4", "p", "x">>]]

------------------------------------------------------------------------------
(* Props.  A prop name is its sequence of characters; props is a function  *)
(* from the names present to their string values.                          *)

DollarVariant == <<"$", "v", "a", "r", "i", "a", "n", "t">>
DollarSize == <<"$", "s", "i", "z", "e">>
DollarState == <<"$", "s", "t", "a", "t", "e">>
Placeholder == <<"p", "l", "a", "c", "e", "h", "o", "l", "d", "e", "r">>

\* the same names without the $, which a component could read instead
Variant == Tail(DollarVariant)
Size == Tail(DollarSize)
State == Tail(DollarState)

PropNames == {DollarVariant, DollarSize, DollarState, Placeholder, Variant, Size, State}

\* props.name
Prop(props, name) == IF name \in DOMAIN props THEN Str(props[name]) ELSE Undefined

VariantValues == {"primary", "danger", "secondary", "success"}
SizeValues == {"small", "large", "sm", "lg"}
StateValues == {"error", "success", "warning"}
PlaceholderValues == {"Normal input"}

ValuesOf(name) ==
    CASE name \in {DollarVariant, Variant} -> VariantValues
      [] name \in {DollarSize, Size} -> SizeValues
      [] name \in {DollarState, State} -> StateValues
      [] name = Placeholder -> PlaceholderValues

PropValues == VariantValues \cup SizeValues \cup StateValues \cup PlaceholderValues

\* every assignment of values to every subset of names (a prop may be absent)
PropsOver(names) ==
    UNION {{f \in [D -> PropValues] : \A n \in D : f[n] \in ValuesOf(n)} :
           D \in SUBSET names}

------------------------------------------------------------------------------
(* CSS: a declaration is [sel, media, prop, value]; value is CSS text.     *)

All == [kind |-> "all"]

MaxWidth(len) == [kind |-> "max-width", len |-> len]

Decl(sel, media, prop, value) ==
    [sel |-> sel, media |-> media, prop |-> prop, value |-> value]

\* what the template writes for an interpolated value: nothing for undefined
Interp(v) == IF v = Undefined THEN "" ELSE v.v

Digits == {"0", "1", "2", "3", "4", "5", "6", "7", "8", "9"}

DigitVal(c) ==
    CASE c = "0" -> 0 [] c = "1" -> 1 [] c = "2" -> 2 [] c = "3" -> 3 [] c = "4" -> 4
      [] c = "5" -> 5 [] c = "6" -> 6 [] c = "7" -> 7 [] c = "8" -> 8 [] c = "9" -> 9

RECURSIVE ParseInt(_, _)
ParseInt(s, acc) ==
    IF s = <<>> \/ Head(s) \notin Digits THEN acc
    ELSE ParseInt(Tail(s), acc * 10 + DigitVal(Head(s)))

\* the number of CSS px a length such as 768px denotes
ParsePx(s) == ParseInt(s, 0)

MediaMatchesExclusive(media, w) == media.kind = "all" \/ w < ParsePx(media.len)

\* @media (max-width: L) applies when the viewport is at most L wide
MediaMatches(media, w) == media.kind = "all" \/ w <= ParsePx(media.len)

\* the cascade: of the declarations of prop that apply, the last one wins;
\* a declaration without a value is dropped
Cascade(decls, sel, prop, w) ==
    LET idx == {i \in DOMAIN decls :
                    /\ decls[i].sel = sel
                    /\ decls[i].prop = prop
                    /\ decls[i].value # ""
                    /\ MediaMatches(decls[i].media, w)}
    IN IF idx = {} THEN "" ELSE decls[CHOOSE i \in idx : \A j \in idx : j <= i].value

\* columns of a grid-template-columns value
Columns(v) ==
    CASE v = "repeat(3, 1fr)" -> 3
      [] v = "repeat(2, 1fr)" -> 2
      [] v = "1fr" -> 1
      [] OTHER -> 0

------------------------------------------------------------------------------
(* components/Button.jsx *)

ButtonBackground(props, th) == Member(th.colors, Prop(props, DollarVariant))

ButtonPadding(props) ==
    IF Prop(props, DollarSize) = Str("large") THEN Str("15px 30px") ELSE Str("10px 20px")

ButtonFontSize(props) ==
    IF Prop(props, DollarSize) = Str("large") THEN Str("40px") ELSE Str("16px")

\* font-size has no closing semicolon, so its value runs on into the margin line
ButtonDecls(props, th) ==
    << Decl("&", All, "background", Interp(ButtonBackground(props, th))),
       Decl("&", All, "color", "white"),
       Decl("&", All, "padding", Interp(ButtonPadding(props))),
       Decl("&", All, "font-size", Interp(ButtonFontSize(props)) \o "\nmargin:10px") >>

IconButtonOwnDecls ==
    << Decl("&", All, "width", "100px"),
       Decl("&", All, "height", "40px"),
       Decl("&", All, "padding", "0"),
       Decl("&", All, "border-radius", "30%") >>

IconButtonDeclsButtonLast(props, th) == IconButtonOwnDecls \o ButtonDecls(props, th)

\* styled(Button): Button's rules, then IconButton's own
IconButtonDecls(props, th) == ButtonDecls(props, th) \o IconButtonOwnDecls

------------------------------------------------------------------------------
(* components/Input.jsx *)

InputBorderColor(props, th) ==
    IF Prop(props, DollarState) = Str("error") THEN Member(th.colors, Str("danger"))
    ELSE IF Prop(props, DollarState) = Str("success") THEN Member(th.colors, Str("success"))
    ELSE Str("#ccc")

InputFontSize(props, th) ==
    IF Prop(props, DollarSize) = Str("small") THEN Member(th.typography, Str("sm"))
    ELSE IF Prop(props, DollarSize) = Str("large") THEN Member(th.typography, Str("lg"))
    ELSE Member(th.typography, Str("md"))

InputPaddingPlainSize(props, th) ==
    IF Prop(props, Size) = Str("small") THEN Member(th.spacing, Str("sm"))
    ELSE IF Prop(props, Size) = Str("large") THEN Member(th.spacing, Str("lg"))
    ELSE Member(th.spacing, Str("md"))

InputPadding(props, th) ==
    IF Prop(props, DollarSize) = Str("small") THEN Member(th.spacing, Str("sm"))
    ELSE IF Prop(props, DollarSize) = Str("large") THEN Member(th.spacing, Str("lg"))
    ELSE Member(th.spacing, Str("md"))

InputFocusBorderColor(th) == Member(th.colors, Str("primary"))

InputDecls(props, th) ==
    << Decl("&", All, "border", "2px solid"),
       Decl("&", All, "border-color", Interp(InputBorderColor(props, th))),
       Decl("&", All, "border-radius", "4px"),
       Decl("&", All, "background", "transparent"),
       Decl("&", All, "color", "white"),
       Decl("&", All, "font-size", Interp(InputFontSize(props, th))),
       Decl("&", All, "padding", Interp(InputPadding(props, th))),
       Decl("&", All, "margin", "10px"),
       Decl("&:focus", All, "outline", "none"),
       Decl("&:focus", All, "border-color", Interp(InputFocusBorderColor(th))) >>

\* the Input of the guide ("Multi-Variant Input Component")
GuideInputPadding(props, th) ==
    Or(Member(th.spacing, Prop(props, DollarSize)), Member(th.spacing, Str("md")))

GuideInputFontSize(props, th) ==
    Or(Member(th.typography, Prop(props, DollarSize)), Member(th.typography, Str("md")))

GuideInputColor(th) == Member(th.colors, Str("text"))

\* the Button of the guide ("Build a Button component with variants and sizes")
GuideButtonBackground(props, th) ==
    IF Prop(props, DollarVariant) = Str("primary") THEN Member(th.colors, Str("primary"))
    ELSE IF Prop(props, DollarVariant) = Str("danger") THEN Member(th.colors, Str("danger"))
    ELSE Member(th.colors, Str("secondary"))

------------------------------------------------------------------------------
(* components/Grid.jsx and the GradientBackground of App *)

GridGap(th) == Member(th.spacing, Str("lg"))

GridTabletQuery(th) == Member(th.breakpoints, Str("tablet"))

GridMobileQuery(th) == Member(th.breakpoints, Str("mobile"))

GridDecls(th) ==
    << Decl("&", All, "display", "grid"),
       Decl("&", All, "grid-template-columns", "repeat(3, 1fr)"),
       Decl("&", All, "gap", Interp(GridGap(th))),
       Decl("&", MaxWidth(Interp(GridTabletQuery(th))), "grid-template-columns", "repeat(2, 1fr)"),
       Decl("&", MaxWidth(Interp(GridMobileQuery(th))), "grid-template-columns", "1fr") >>

GradientBackgroundBackground(th) == Member(th.gradients, Str("main"))

GradientBackgroundDecls(th) ==
    << Decl("&", All, "min-height", "100vh"),
       Decl("&", All, "background", Interp(GradientBackgroundBackground(th))),
       Decl("&", All, "padding", "40px"),
       Decl("&", All, "transition", "background 0.5s ease") >>

------------------------------------------------------------------------------
(* Rendering *)

Elem(comp, props, provider) == [comp |-> comp, props |-> props, provider |-> provider]

NoProps == [n \in {} |-> ""]

\* the styled elements of the theme-switcher App (those in the commented-out
\* block included) and of the earlier App, with every choice of their props
AppElements ==
    {Elem("GradientBackground", NoProps, "App"), Elem("Grid", NoProps, "App")}
    \cup {Elem("Input", p, "App") : p \in PropsOver({DollarState, DollarSize, Placeholder})}
    \cup {Elem(c, p, "App") : c \in {"Button", "IconButton"},
                              p \in PropsOver({DollarVariant, DollarSize})}

OldAppElements ==
    {Elem(c, p, "AppOld") : c \in {"Button", "IconButton"},
                            p \in PropsOver({DollarVariant, DollarSize})}

Elements == AppElements \cup OldAppElements

\* const currentTheme = isDark ? darkTheme : lightTheme
CurrentTheme(dark) == IF dark THEN darkTheme ELSE lightTheme

\* <ThemeProvider theme={...}> of the App the element is rendered in
ProvidedTheme(provider) == IF provider = "App" THEN currentTheme ELSE theme

Components == {"Button", "IconButton", "Input", "Grid", "GradientBackground"}

\* the declarations a component's template produces
Decls(comp, props, th) ==
    CASE comp = "Button" -> ButtonDecls(props, th)
      [] comp = "IconButton" -> IconButtonDecls(props, th)
      [] comp = "Input" -> InputDecls(props, th)
      [] comp = "Grid" -> GridDecls(th)
      [] comp = "GradientBackground" -> GradientBackgroundDecls(th)

\* the values the style functions of the element's component return
Interpolations(e, th) ==
    CASE e.comp \in {"Button", "IconButton"} ->
            {ButtonBackground(e.props, th), ButtonPadding(e.props), ButtonFontSize(e.props)}
      [] e.comp = "Input" ->
            {InputBorderColor(e.props, th), InputFontSize(e.props, th),
             InputPadding(e.props, th), InputFocusBorderColor(th)}
      [] e.comp = "Grid" -> {GridGap(th), GridTabletQuery(th), GridMobileQuery(th)}
      [] e.comp = "GradientBackground" -> {GradientBackgroundBackground(th)}

With(props, name, value) ==
    [m \in DOMAIN props \cup {name} |-> IF m = name THEN value ELSE props[m]]

Without(props, name) == [m \in DOMAIN props \ {name} |-> props[m]]

\* the props, other than theme, the style functions of each component read:
\* those on which the declarations it produces depend
PropsRead ==
    [comp \in Components |->
        {n \in PropNames :
            \E p \in PropsOver({DollarVariant, DollarSize, DollarState}), v \in ValuesOf(n) :
                Decls(comp, With(p, n, v), LightThemeLiteral)
                    # Decls(comp, Without(p, n), LightThemeLiteral)}]

\* styled-components hands a prop to the DOM element unless its name starts with $
ForwardedProps(props) ==
    [n \in {m \in DOMAIN props : Head(m) # "$"} |-> props[n]]

\* the style of the element in the current viewport
Style(prop) ==
    Cascade(Decls(elem.comp, elem.props, ProvidedTheme(elem.provider)), "&", prop, width)

\* the attributes of the element's DOM node
Attrs == ForwardedProps(elem.props)

Breakpoints == {BaseThemeLiteral.breakpoints[k] : k \in DOMAIN BaseThemeLiteral.breakpoints}

Widths == {0} \cup {ParsePx(b) + d : b \in Breakpoints, d \in (0 - MaxDelta)..MaxDelta}

------------------------------------------------------------------------------
(* The state machine *)

Init ==
    /\ count = 0
    /\ isDark = FALSE
    /\ baseTheme = BaseThemeLiteral
    /\ lightTheme = LightThemeLiteral
    /\ darkTheme = DarkThemeLiteral
    /\ theme = ThemeLiteral
    /\ currentTheme = LightThemeLiteral
    /\ clicks = 0
    /\ width \in Widths
    /\ elem \in {Elem("GradientBackground", NoProps, "App"), Elem("Grid", NoProps, "App")}

ToggleSetsDark ==
    /\ clicks < MaxClicks
    /\ isDark' = TRUE
    /\ currentTheme' = CurrentTheme(isDark')
    /\ clicks' = clicks + 1
    /\ UNCHANGED <<count, themeVars, width, elem>>

ToggleOverwritesTheme ==
    /\ clicks < MaxClicks
    /\ isDark' = ~isDark
    /\ lightTheme' = Spread(lightTheme, [colors |-> darkTheme.colors])
    /\ currentTheme' = lightTheme'
    /\ clicks' = clicks + 1
    /\ UNCHANGED <<count, baseTheme, darkTheme, theme, width, elem>>

ToggleCounts ==
    /\ clicks < MaxClicks
    /\ isDark' = ~isDark
    /\ count' = count + 1
    /\ currentTheme' = CurrentTheme(isDark')
    /\ clicks' = clicks + 1
    /\ UNCHANGED <<themeVars, width, elem>>

\* onClick={() => setIsDark(!isDark)}, and the re-render it causes
Toggle ==
    /\ clicks < MaxClicks
    /\ isDark' = ~isDark
    /\ currentTheme' = CurrentTheme(isDark')
    /\ clicks' = clicks + 1
    /\ UNCHANGED <<count, themeVars, width, elem>>

\* a render of a styled element inside its App's ThemeProvider
Render(e) ==
    /\ elem' = e
    /\ currentTheme' = CurrentTheme(isDark)
    /\ UNCHANGED <<count, isDark, themeVars, clicks, width>>

\* the viewport changes width
Resize(w) ==
    /\ width' = w
    /\ UNCHANGED <<count, isDark, currentTheme, themeVars, clicks, elem>>

Next ==
    \/ Toggle
    \/ \E e \in Elements : Render(e)
    \/ \E w \in Widths : Resize(w)

Spec == Init /\ [][Next]_vars

------------------------------------------------------------------------------
(* Claims *)

Provided == ProvidedTheme(elem.provider)

\* C1: every value a style function of the rendered element obtains from the
\* theme is a defined string, never undefined.
C1_EveryThemeKeyExists ==
    \A v \in Interpolations(elem, Provided) : v # Undefined

\* C2: the theme supplied to ThemeProvider is darkTheme exactly when isDark is
\* true and lightTheme otherwise, and after n clicks isDark holds iff n is odd.
C2_ThemeFollowsToggle ==
    /\ ProvidedTheme("App") = (IF isDark THEN darkTheme ELSE lightTheme)
    /\ isDark = (clicks % 2 = 1)
    /\ (clicks % 2 = 1) => ProvidedTheme("App") = DarkThemeLiteral
    /\ (clicks % 2 = 0) => ProvidedTheme("App") = LightThemeLiteral

C2_Witness == clicks = 3 /\ isDark /\ currentTheme = DarkThemeLiteral

\* C3: the theme objects are never mutated: every key of baseTheme, lightTheme,
\* darkTheme (and of the earlier theme) keeps its initial value.
C3_ThemesNeverMutated ==
    /\ baseTheme = BaseThemeLiteral
    /\ lightTheme = LightThemeLiteral
    /\ darkTheme = DarkThemeLiteral
    /\ theme = ThemeLiteral

C3_Witness == clicks >= 2 /\ elem.comp = "Input" /\ lightTheme.colors.text = "#333333"

\* C4: isDark is the only state of App that changes: no step changes count,
\* which stays at its initial value 0.
C4_OnlyIsDarkChanges == [][count = 0 /\ count' = count]_vars

C4_Witness == clicks >= 1 /\ isDark /\ count = 0

C6_ButtonBackgroundByVariant ==
    elem.comp = "Button" =>
        ButtonBackground(elem.props, Provided) = GuideButtonBackground(elem.props, Provided)

\* C7: Input's padding and font-size are theme.spacing[$size] and
\* theme.typography[$size] when that key exists, and the md values otherwise.
C7_InputSizingAsGuide ==
    elem.comp = "Input" =>
        /\ InputPadding(elem.props, Provided) = GuideInputPadding(elem.props, Provided)
        /\ InputFontSize(elem.props, Provided) = GuideInputFontSize(elem.props, Provided)

\* C8: Input's text color is theme.colors.text of the supplied theme.
C8_InputColorFollowsTheme ==
    elem.comp = "Input" => Style("color") = Interp(GuideInputColor(Provided))

\* C9: with breakpoints mobile 480 < tablet 768 < desktop 1024, Grid has 3
\* columns above tablet, 2 above mobile up to tablet, 1 up to mobile, and its
\* gap is theme.spacing.lg at every width.
C9_GridColumnsByWidth ==
    elem.comp = "Grid" =>
        /\ ParsePx(Provided.breakpoints.mobile) = 480
        /\ ParsePx(Provided.breakpoints.tablet) = 768
        /\ ParsePx(Provided.breakpoints.desktop) = 1024
        /\ Columns(Style("grid-template-columns")) =
               (IF width > 768 THEN 3 ELSE IF width > 480 THEN 2 ELSE 1)
        /\ Style("gap") = Provided.spacing.lg

C9_Witness ==
    /\ elem.comp = "Grid"
    /\ isDark
    /\ width = 768
    /\ Style("grid-template-columns") = "repeat(2, 1fr)"

====
